---- MODULE Spec2Model ----
(***************************************************************************)
(* Model of monarch_feeder's snapshot reconciliation:                      *)
(*   get_transaction_log_diff  (computer_use_demo/models.py)               *)
(* A call is modelled as one step from a state holding the two input       *)
(* lists to a state that also holds the returned list.                     *)
(***************************************************************************)
EXTENDS Integers, Sequences, FiniteSets, TLC

VARIABLES
    \* get_transaction_log_diff: its arguments, its result, the caller's position
    new_log, old_log, new_transactions, pc,
    \* TransactionLog.from_json_file: the records of the JSON file, the outcome
    transactions_data, loaded,
    \* sync.py: the run's configuration, the snapshot directory, the locals of
    \* sync_transactions_to_monarch / sync_portfolio_to_monarch and its position
    config_type, dry_run, directory, files, run_new_log, run_old_log,
    portfolio, run_pc,
    \* the ledger: the mutating calls it received, the account's holdings
    ledger_calls, ledger_holdings,
    \* monarch.py: the locals of update_account_holdings
    uah,
    \* monarch.py login: the session file, the session held by mm, the
    \* position in login, the calls made on mm so far, the logins begun
    session_file, mm_session, login_pc, login_calls, logins,
    \* ProgrammaticRunner.execute_task: the task, the locals messages,
    \* subtask_results, overall_success and the loop index, the position, the
    \* calls of sampling_loop so far and the returned TaskResult
    task, messages, subtask_results, overall_success, subtask_i, runner_pc,
    loop_calls, task_result

diffVars == <<new_log, old_log, new_transactions, pc>>
loadVars == <<transactions_data, loaded>>
configVars == <<config_type, dry_run, directory>>
runVars == <<files, run_new_log, run_old_log, portfolio, run_pc>>
ledgerVars == <<ledger_calls, ledger_holdings>>
syncVars == <<configVars, runVars, ledgerVars, uah>>
loginVars == <<session_file, mm_session, login_pc, login_calls, logins>>
runnerVars == <<task, messages, subtask_results, overall_success, subtask_i, runner_pc,
                loop_calls, task_result>>
vars == <<diffVars, loadVars, syncVars, loginVars, runnerVars>>

\* ------------------------------------------------------------------ bounds
\* longest new_log / old_log handed to get_transaction_log_diff
MaxNew == 3
MaxOld == 2

\* ------------------------------------------------------------- input values
\* (user_account, counterparty_account) pairs of the transactions
Parties == {<<"401k", "Employer">>, <<"HSA", "Payroll">>}
\* (date, amount) pairs occurring in the snapshots: two dates, two amounts
\* (whole dollars), one date carrying both amounts
DateAmounts == {<<"2024-01-01", 50>>, <<"2024-01-02", 10>>, <<"2024-01-01", 10>>}

\* class Transaction: the four validated fields
Transaction ==
    { [date |-> da[1], user_account |-> p[1], counterparty_account |-> p[2],
       amount |-> da[2]] : da \in DateAmounts, p \in Parties }

SeqsUpTo(S, n) == UNION { [1..k -> S] : k \in 0..n }

\* ---------------------------------------------------------- the function
\* key = (transaction.date, transaction.amount)
\* (KeyOf_DateOnly: the amount left out of the key; KeyOf_Identity: the key
\*  taken to be the whole identity tuple of Transaction.__hash__)
KeyOf_DateOnly(transaction) == <<transaction.date>>
KeyOf_Identity(transaction) ==
    <<transaction.date, transaction.user_account,
      transaction.counterparty_account, transaction.amount>>
KeyOf(transaction) == <<transaction.date, transaction.amount>>

\* defaultdict(list): insertion-ordered keys and the list stored under each
EmptyGroups == [order |-> <<>>, items |-> <<>>]

\* groups[key].append(transaction)
GroupAppend(groups, transaction) ==
    LET key == KeyOf(transaction) IN
    IF \E i \in 1..Len(groups.order) : groups.order[i] = key
    THEN [order |-> groups.order,
          items |-> [i \in 1..Len(groups.order) |->
                        IF groups.order[i] = key
                        THEN Append(groups.items[i], transaction)
                        ELSE groups.items[i]]]
    ELSE [order |-> Append(groups.order, key),
          items |-> Append(groups.items, <<transaction>>)]

\* for transaction in log: groups[key].append(transaction)
RECURSIVE GroupBy(_)
GroupBy(log) ==
    IF log = <<>> THEN EmptyGroups
    ELSE GroupAppend(GroupBy(SubSeq(log, 1, Len(log) - 1)), log[Len(log)])

\* old_groups.get(key, [])
GroupGet(groups, key) ==
    IF \E i \in 1..Len(groups.order) : groups.order[i] = key
    THEN groups.items[CHOOSE i \in 1..Len(groups.order) : groups.order[i] = key]
    ELSE <<>>

\* if new_count > old_count: new_group[:new_count - old_count]
\* (Excess_Tail: new_group[-excess_count:]; Excess_FromOld: the slice taken
\*  of old_group; Excess_Positional: the entries of new_group that differ
\*  from the entry of old_group at the same position, then the surplus)
Excess_Positional(new_group, old_group) ==
    LET new_count == Len(new_group)
        old_count == Len(old_group)
        paired == [i \in 1..new_count |->
                      i <= old_count /\ new_group[i] = old_group[i]]
        RECURSIVE Keep(_)
        Keep(n) == IF n = 0 THEN <<>>
                   ELSE IF paired[n] THEN Keep(n - 1)
                   ELSE Append(Keep(n - 1), new_group[n])
    IN  Keep(new_count)
Excess_Tail(new_group, old_group) ==
    LET new_count == Len(new_group)
        old_count == Len(old_group)
    IN  IF new_count > old_count
        THEN SubSeq(new_group, old_count + 1, new_count)
        ELSE <<>>
Excess_FromOld(new_group, old_group) ==
    LET new_count == Len(new_group)
        old_count == Len(old_group)
        excess_count == new_count - old_count
    IN  IF new_count > old_count
        THEN SubSeq(old_group, 1, IF excess_count < old_count
                                  THEN excess_count ELSE old_count)
        ELSE <<>>
Excess(new_group, old_group) ==
    LET new_count == Len(new_group)
        old_count == Len(old_group)
        excess_count == new_count - old_count
    IN  IF new_count > old_count
        THEN SubSeq(new_group, 1, excess_count)
        ELSE <<>>

\* for key, new_group in new_groups.items(): new_transactions.extend(...)
\* (Emit_Lifo: the groups taken last-inserted first, as dict.popitem() does)
RECURSIVE Emit_Lifo(_, _, _)
Emit_Lifo(new_groups, old_groups, n) ==
    IF n = 0 THEN <<>>
    ELSE Excess(new_groups.items[n], GroupGet(old_groups, new_groups.order[n]))
         \o Emit_Lifo(new_groups, old_groups, n - 1)
RECURSIVE Emit(_, _, _)
Emit(new_groups, old_groups, n) ==
    IF n = 0 THEN <<>>
    ELSE Emit(new_groups, old_groups, n - 1)
         \o Excess(new_groups.items[n], GroupGet(old_groups, new_groups.order[n]))

\* itertools.groupby without sorting: a key's later run replaces its earlier
RunAppend(groups, transaction) ==
    LET key == KeyOf(transaction)
        n == Len(groups.order)
    IN  IF n > 0 /\ groups.order[n] = key
        THEN [order |-> groups.order,
              items |-> [groups.items EXCEPT ![n] = Append(@, transaction)]]
        ELSE IF \E i \in 1..n : groups.order[i] = key
        THEN [order |-> groups.order,
              items |-> [i \in 1..n |-> IF groups.order[i] = key
                                        THEN <<transaction>> ELSE groups.items[i]]]
        ELSE [order |-> Append(groups.order, key),
              items |-> Append(groups.items, <<transaction>>)]
RECURSIVE GroupByRuns(_)
GroupByRuns(log) ==
    IF log = <<>> THEN EmptyGroups
    ELSE RunAppend(GroupByRuns(SubSeq(log, 1, Len(log) - 1)), log[Len(log)])
get_transaction_log_diff_OldRuns(new_log_, old_log_) ==
    LET new_groups == GroupBy(new_log_)
        old_groups == GroupByRuns(old_log_)
    IN  Emit(new_groups, old_groups, Len(new_groups.order))
get_transaction_log_diff_NewRuns(new_log_, old_log_) ==
    LET new_groups == GroupByRuns(new_log_)
        old_groups == GroupBy(old_log_)
    IN  Emit(new_groups, old_groups, Len(new_groups.order))
\* (get_transaction_log_diff_Symmetric: the surplus of either log reported)
get_transaction_log_diff_Symmetric(new_log_, old_log_) ==
    LET new_groups == GroupBy(new_log_)
        old_groups == GroupBy(old_log_)
    IN  Emit(new_groups, old_groups, Len(new_groups.order))
        \o Emit(old_groups, new_groups, Len(old_groups.order))
\* def get_transaction_log_diff(new_log, old_log)
get_transaction_log_diff(new_log_, old_log_) ==
    LET new_groups == GroupBy(new_log_)
        old_groups == GroupBy(old_log_)
    IN  Emit(new_groups, old_groups, Len(new_groups.order))

\* whether old_groups.get(key, []) raises: dict.get with a default never does
\* (GroupGetRaises_Index: old_groups[key] on a plain dict, KeyError when absent)
GroupGetRaises_Index(groups, key) ==
    ~ \E i \in 1..Len(groups.order) : groups.order[i] = key
GroupGetRaises(groups, key) == FALSE

\* whether a call on lists of transactions ends in an exception: the lookups
\* of the emission loop are its only operations that could; defaultdict
\* indexing and slicing cannot
DiffRaises(new_log_, old_log_) ==
    LET new_groups == GroupBy(new_log_)
        old_groups == GroupBy(old_log_)
    IN  \E n \in 1..Len(new_groups.order) :
            GroupGetRaises(old_groups, new_groups.order[n])

\* ------------------------------------------------------------ the machine
\* no file is being loaded
LoadIdle ==
    /\ transactions_data = <<>>
    /\ loaded = [status |-> "idle"]

\* no sync is running
SyncIdle ==
    /\ config_type = "none"
    /\ dry_run = FALSE
    /\ directory = <<>>
    /\ files = <<>>
    /\ run_new_log = [type |-> "none"]
    /\ run_old_log = [type |-> "none"]
    /\ portfolio = [status |-> "none"]
    /\ run_pc = "idle"
    /\ ledger_calls = <<>>
    /\ ledger_holdings = <<>>
    /\ uah = [pc |-> "idle"]

\* no login is in progress
LoginIdle ==
    /\ session_file = [exists |-> FALSE]
    /\ mm_session = "none"
    /\ login_pc = "idle"
    /\ login_calls = <<>>
    /\ logins = 0

\* no task is being executed
RunnerIdle ==
    /\ task = <<>>
    /\ messages = <<>>
    /\ subtask_results = <<>>
    /\ overall_success = TRUE
    /\ subtask_i = 0
    /\ runner_pc = "idle"
    /\ loop_calls = <<>>
    /\ task_result = [status |-> "none"]

Init ==
    /\ new_log \in SeqsUpTo(Transaction, MaxNew)
    /\ old_log \in SeqsUpTo(Transaction, MaxOld)
    /\ new_transactions = <<>>
    /\ pc = "call"
    /\ LoadIdle
    /\ SyncIdle
    /\ LoginIdle
    /\ RunnerIdle

\* one call of get_transaction_log_diff(new_log, old_log); the caller may call
\* again with the same lists
\* (Call_Accumulating: the result list kept across calls instead of being
\*  created by each call)
Call_Accumulating ==
    /\ pc \in {"call", "done"}
    /\ Len(new_transactions) <= MaxNew
    /\ new_transactions' = new_transactions \o get_transaction_log_diff(new_log, old_log)
    /\ pc' = "done"
    /\ UNCHANGED <<new_log, old_log, loadVars, syncVars, loginVars, runnerVars>>
Call ==
    /\ pc \in {"call", "done"}
    /\ IF DiffRaises(new_log, old_log)
       THEN /\ pc' = "raised"
            /\ UNCHANGED new_transactions
       ELSE /\ new_transactions' = get_transaction_log_diff(new_log, old_log)
            /\ pc' = "done"
    /\ UNCHANGED <<new_log, old_log, loadVars, syncVars, loginVars, runnerVars>>

Next == Call

Spec == Init /\ [][Next]_vars

TypeOK ==
    /\ new_log \in Seq(Transaction)
    /\ old_log \in Seq(Transaction)
    /\ new_transactions \in Seq(Transaction)
    /\ pc \in {"call", "done", "raised"}

\* ------------------------------------------- TransactionLog.from_json_file
\* longest JSON array loaded
MaxRecords == 2

\* A date string as written in a record: its separator and the digits of its
\* three parts.
DateStrings ==
    [sep : {"-", "/"},
     year : {<<2, 0, 2, 4>>, <<2, 4>>},
     month : {<<0, 2>>, <<2>>, <<1, 3>>},
     day : {<<0, 1>>, <<3, 0>>}]

\* the records a JSON file may hold
Records ==
    [date : DateStrings, user_account : {"401k", "HSA"},
     counterparty_account : {"Employer"}, amount : {50}]

RECURSIVE NumberOf(_)
NumberOf(digits) ==
    IF digits = <<>> THEN 0
    ELSE 10 * NumberOf(SubSeq(digits, 1, Len(digits) - 1)) + digits[Len(digits)]

IsLeap(y) == (y % 4 = 0 /\ y % 100 # 0) \/ y % 400 = 0
DaysInMonth(y, m) ==
    IF m = 2 THEN (IF IsLeap(y) THEN 29 ELSE 28)
    ELSE IF m \in {4, 6, 9, 11} THEN 30 ELSE 31

\* datetime.datetime.strptime(v, "%Y-%m-%d") returns: %Y takes four digits,
\* %m and %d take one or two digits, the literal "-" separates them, and the
\* three numbers must make a date
StrptimeAccepts(v) ==
    /\ v.sep = "-"
    /\ Len(v.year) = 4 /\ NumberOf(v.year) >= 1
    /\ Len(v.month) \in 1..2 /\ NumberOf(v.month) \in 1..12
    /\ Len(v.day) \in 1..2
    /\ NumberOf(v.day) \in 1..DaysInMonth(NumberOf(v.year), NumberOf(v.month))

\* Transaction.validate_date: raises unless strptime returns; returns v as is
validate_date(v) ==
    IF StrptimeAccepts(v) THEN [status |-> "ok", value |-> v]
    ELSE [status |-> "ValueError"]

\* Transaction.__hash__ with BaseModel.__eq__: the identity of a transaction
\* in a set
IdentityOf(t) == <<t.date, t.user_account, t.counterparty_account, t.amount>>

\* TransactionLog.validate_transactions: len(v) != len(set(v)) raises
\* (validate_transactions_Less: the comparison written len(v) < len(set(v)))
validate_transactions_Less(v) ==
    IF Len(v) < Cardinality({ IdentityOf(v[i]) : i \in 1..Len(v) })
    THEN [status |-> "ValueError"]
    ELSE [status |-> "ok", transactions |-> v]
validate_transactions(v) ==
    IF Len(v) # Cardinality({ IdentityOf(v[i]) : i \in 1..Len(v) })
    THEN [status |-> "ValueError"]
    ELSE [status |-> "ok", transactions |-> v]

\* TransactionLog.from_json_file: every record is made a Transaction (the
\* first failing validation ends the load), then the log is validated
from_json_file(data) ==
    IF \E i \in 1..Len(data) : validate_date(data[i].date).status # "ok"
    THEN [status |-> "ValueError"]
    ELSE validate_transactions(data)

DiffIdle ==
    /\ new_log = <<>>
    /\ old_log = <<>>
    /\ new_transactions = <<>>
    /\ pc = "idle"

LoadInit ==
    /\ transactions_data \in SeqsUpTo(Records, MaxRecords)
    /\ loaded = [status |-> "pending"]
    /\ DiffIdle
    /\ SyncIdle
    /\ LoginIdle
    /\ RunnerIdle

Load ==
    /\ loaded.status = "pending"
    /\ loaded' = from_json_file(transactions_data)
    /\ UNCHANGED <<transactions_data, diffVars, syncVars, loginVars, runnerVars>>

LoadNext == Load

LoadSpec == LoadInit /\ [][LoadNext]_vars

\* ---------------------------------------------------------------- sync.py
\* most files in a snapshot directory
MaxFiles == 3
\* the datetimes a file name or a modification time may carry
Times == {1, 2}

\* What extract_datetime_from_filename reads of a file: a name ending in
\* _{yyyymmdd}_{hhmmss}.json whose digits make a datetime ("name"), a name
\* with such digits that make none, as in _20241345_000000.json ("invalid"),
\* or any other name, for which the modification time is taken ("mtime").
Stamps ==
    [kind : {"name", "mtime"}, at : Times] \cup {[kind |-> "invalid", at |-> 1]}

RecordA ==
    [date |-> [sep |-> "-", year |-> <<2, 0, 2, 4>>, month |-> <<0, 2>>, day |-> <<0, 1>>],
     user_account |-> "401k", counterparty_account |-> "Employer", amount |-> 50]
RecordB == [RecordA EXCEPT !.user_account = "HSA"]
RecordBad == [RecordA EXCEPT !.date.month = <<1, 3>>]
\* the JSON arrays a transactions snapshot may hold
TransactionSnapshots == {<<RecordA>>, <<RecordB, RecordA>>, <<RecordBad>>}

\* shares and quantities are counted in thousandths of a share
\* abs(current_quantity - target_quantity) > 0.001
Tolerance == 1
\* the JSON arrays a portfolio snapshot may hold
PortfolioSnapshots ==
    { <<[stock_ticker |-> "AAPL", shares |-> 1000]>>,
      <<[stock_ticker |-> "AAPL", shares |-> 1003],
        [stock_ticker |-> "GOOG", shares |-> 1]>>,
      <<[stock_ticker |-> "AAPL", shares |-> 0]>> }
\* the holdings the ledger account may have before a run
InitialHoldings ==
    { <<>>,
      <<[ticker |-> "AAPL", quantity |-> 1000]>>,
      <<[ticker |-> "MSFT", quantity |-> 1000], [ticker |-> "AAPL", quantity |-> 1001],
        [ticker |-> "GOOG", quantity |-> 0]>> }

SnapshotFiles(type) ==
    [stamp : Stamps,
     content : IF type = "transactions" THEN TransactionSnapshots ELSE PortfolioSnapshots]

\* extract_datetime_from_filename
extract_datetime_from_filename(file) ==
    IF file.stamp.kind = "invalid" THEN [status |-> "ValueError"]
    ELSE [status |-> "ok", value |-> file.stamp.at]

\* sorted(..., key=..., reverse=True): stable, latest first
\* (SortedLatestFirst_Ascending: reverse=True left out)
RECURSIVE SortedLatestFirst_Ascending(_)
SortedLatestFirst_Ascending(fs) ==
    IF fs = <<>> THEN <<>>
    ELSE LET last == fs[Len(fs)]
             rest == SortedLatestFirst_Ascending(SubSeq(fs, 1, Len(fs) - 1))
             before == SelectSeq(rest, LAMBDA f : f.stamp.at <= last.stamp.at)
             after == SelectSeq(rest, LAMBDA f : f.stamp.at > last.stamp.at)
         IN  before \o <<last>> \o after
RECURSIVE SortedLatestFirst(_)
SortedLatestFirst(fs) ==
    IF fs = <<>> THEN <<>>
    ELSE LET last == fs[Len(fs)]
             rest == SortedLatestFirst(SubSeq(fs, 1, Len(fs) - 1))
             before == SelectSeq(rest, LAMBDA f :
                           extract_datetime_from_filename(f).value
                               >= extract_datetime_from_filename(last).value)
             after == SelectSeq(rest, LAMBDA f :
                           extract_datetime_from_filename(f).value
                               < extract_datetime_from_filename(last).value)
         IN  before \o <<last>> \o after

\* get_latest_files(pattern, n) on the files the pattern matches, in glob order
get_latest_files(matching, n) ==
    IF \E i \in 1..Len(matching) :
           extract_datetime_from_filename(matching[i]).status # "ok"
    THEN [status |-> "ValueError"]
    ELSE [status |-> "ok",
          value |-> SubSeq(SortedLatestFirst(matching), 1,
                           IF Len(matching) < n THEN Len(matching) ELSE n)]

\* what a for loop over obj visits: the entries of a list, or for a pydantic
\* model its (field name, value) pairs
IterationOf(obj) ==
    IF obj.type = "list"
    THEN [i \in 1..Len(obj.items) |-> [type |-> "Transaction", value |-> obj.items[i]]]
    ELSE << [type |-> "tuple", value |-> <<"transactions", obj.transactions>>] >>

\* get_transaction_log_diff as sync_transactions_to_monarch calls it:
\* transaction.date is read of every entry visited (models.py:170-176), and a
\* tuple has no such attribute
DiffOfObjects(new_obj, old_obj) ==
    LET new_seen == IterationOf(new_obj)
        old_seen == IterationOf(old_obj)
    IN  IF \/ \E i \in 1..Len(new_seen) : new_seen[i].type # "Transaction"
           \/ \E i \in 1..Len(old_seen) : old_seen[i].type # "Transaction"
        THEN [status |-> "AttributeError"]
        ELSE [status |-> "ok",
              value |-> get_transaction_log_diff(
                            [i \in 1..Len(new_seen) |-> new_seen[i].value],
                            [i \in 1..Len(old_seen) |-> old_seen[i].value])]

\* Holding.validate_ticker (letters only), Holding.validate_shares (positive),
\* Portfolio.validate_no_duplicate_tickers
portfolio_from_json_file(data) ==
    IF \/ \E i \in 1..Len(data) : data[i].shares <= 0
       \/ \E i, j \in 1..Len(data) : i < j /\ data[i].stock_ticker = data[j].stock_ticker
    THEN [status |-> "ValueError"]
    ELSE [status |-> "ok", holdings |-> data]

SyncInit ==
    /\ config_type \in {"transactions", "portfolio"}
    /\ dry_run \in BOOLEAN
    /\ directory \in SeqsUpTo(SnapshotFiles(config_type), MaxFiles)
    /\ files = <<>>
    /\ run_new_log = [type |-> "none"]
    /\ run_old_log = [type |-> "none"]
    /\ portfolio = [status |-> "none"]
    /\ run_pc = "start"
    /\ ledger_calls = <<>>
    /\ ledger_holdings \in (IF config_type = "portfolio" THEN InitialHoldings ELSE {<<>>})
    /\ uah = [pc |-> "idle"]
    /\ DiffIdle
    /\ LoadIdle
    /\ LoginIdle
    /\ RunnerIdle

\* sync.py:123-127 and 156-160: the latest files, ValueError when there is none
GetFiles ==
    /\ run_pc = "start"
    /\ LET got == get_latest_files(directory, IF config_type = "transactions" THEN 2 ELSE 1)
       IN  IF got.status # "ok"
           THEN run_pc' = "raised" /\ UNCHANGED files
           ELSE /\ files' = got.value
                /\ run_pc' = IF got.value = <<>> THEN "raised" ELSE "load"
    /\ UNCHANGED <<run_new_log, run_old_log, portfolio>>
    /\ UNCHANGED <<configVars, ledgerVars, uah, diffVars, loadVars,
                 loginVars, runnerVars>>

\* sync.py:129-130: new_log and old_log are TransactionLog objects, old_log
\* a list when there is a single file
LoadLogs ==
    /\ run_pc = "load" /\ config_type = "transactions"
    /\ LET new == from_json_file(files[1].content)
           old == IF Len(files) > 1 THEN from_json_file(files[2].content)
                  ELSE [status |-> "ok", transactions |-> <<>>]
       IN  IF new.status # "ok" \/ old.status # "ok"
           THEN run_pc' = "raised" /\ UNCHANGED <<run_new_log, run_old_log>>
           ELSE /\ run_new_log' = [type |-> "TransactionLog",
                                   transactions |-> new.transactions]
                /\ run_old_log' = IF Len(files) > 1
                                  THEN [type |-> "TransactionLog",
                                        transactions |-> old.transactions]
                                  ELSE [type |-> "list", items |-> <<>>]
                /\ run_pc' = "diff"
    /\ UNCHANGED <<files, portfolio>>
    /\ UNCHANGED <<configVars, ledgerVars, uah, diffVars, loadVars,
                 loginVars, runnerVars>>

\* sync.py:131: the call ends in AttributeError for every new_log, so the
\* loop of sync.py:133-149 is never entered, with or without dry_run
DiffLogs ==
    /\ run_pc = "diff"
    /\ run_pc' = IF DiffOfObjects(run_new_log, run_old_log).status = "ok"
                 THEN "submit" ELSE "raised"
    /\ UNCHANGED <<files, run_new_log, run_old_log, portfolio>>
    /\ UNCHANGED <<configVars, ledgerVars, uah, diffVars, loadVars,
                 loginVars, runnerVars>>

\* ------------------------------------- sync_portfolio_to_monarch, monarch.py
\* the ways a call to the ledger ends: it succeeds, reports failure (False or
\* an errors entry), or raises; only a call that succeeds changes the ledger
Outcomes == {"ok", "failed", "raised"}

IndexOfTicker(holdings, ticker) ==
    CHOOSE i \in 1..Len(holdings) : holdings[i].ticker = ticker
Holds(holdings, ticker) == \E i \in 1..Len(holdings) : holdings[i].ticker = ticker
WithoutTicker(holdings, ticker) == SelectSeq(holdings, LAMBDA h : h.ticker # ticker)
Abs(x) == IF x < 0 THEN -x ELSE x

\* sync.py:162-171: the portfolio is loaded; a dry run prints it, any other
\* run calls update_account_holdings
\* (LoadPortfolio_NoDryRun: dry_run not consulted)
LoadPortfolio_NoDryRun ==
    /\ run_pc = "load" /\ config_type = "portfolio"
    /\ LET got == portfolio_from_json_file(files[1].content)
       IN  /\ portfolio' = got
           /\ IF got.status # "ok"
              THEN run_pc' = "raised" /\ UNCHANGED uah
              ELSE run_pc' = "update" /\ uah' = [pc |-> "fetch"]
    /\ UNCHANGED <<files, run_new_log, run_old_log>>
    /\ UNCHANGED <<configVars, ledgerVars, diffVars, loadVars,
                 loginVars, runnerVars>>
LoadPortfolio ==
    /\ run_pc = "load" /\ config_type = "portfolio"
    /\ LET got == portfolio_from_json_file(files[1].content)
       IN  /\ portfolio' = got
           /\ IF got.status # "ok"
              THEN run_pc' = "raised" /\ UNCHANGED uah
              ELSE IF dry_run
              THEN run_pc' = "done" /\ UNCHANGED uah
              ELSE run_pc' = "update" /\ uah' = [pc |-> "fetch"]
    /\ UNCHANGED <<files, run_new_log, run_old_log>>
    /\ UNCHANGED <<configVars, ledgerVars, diffVars, loadVars,
                 loginVars, runnerVars>>

UahFrame == UNCHANGED <<configVars, files, run_new_log, run_old_log, portfolio,
                        diffVars, loadVars,
                 loginVars, runnerVars>>

\* monarch.py:216-253: the current holdings are fetched; an exception here is
\* caught by the outer handler, which returns False
UahFetch ==
    /\ run_pc = "update" /\ uah.pc = "fetch"
    /\ \E outcome \in {"ok", "raised"} :
          /\ ledger_calls' = Append(ledger_calls,
                 [call |-> "get_account_holdings", outcome |-> outcome])
          /\ IF outcome = "ok"
             THEN /\ uah' = [pc |-> "target", current |-> ledger_holdings, i |-> 1, j |-> 1,
                             operations_succeeded |-> 0, total_operations |-> 0]
                  /\ UNCHANGED run_pc
             ELSE /\ uah' = [pc |-> "returned", result |-> FALSE]
                  /\ run_pc' = "done"
    /\ UNCHANGED ledger_holdings
    /\ UahFrame

\* monarch.py:263-266, 303-306: a target already held within the tolerance
UahNoChange ==
    /\ run_pc = "update" /\ uah.pc = "target" /\ uah.i <= Len(portfolio.holdings)
    /\ LET target == portfolio.holdings[uah.i] IN
       /\ Holds(uah.current, target.stock_ticker)
       /\ Abs(uah.current[IndexOfTicker(uah.current, target.stock_ticker)].quantity
                - target.shares) <= Tolerance
       /\ uah' = [uah EXCEPT !.i = @ + 1, !.total_operations = @ + 1,
                             !.operations_succeeded = @ + 1]
    /\ UNCHANGED <<run_pc, ledgerVars>>
    /\ UahFrame

\* monarch.py:266-272, 299-302: a held target whose quantity differs: the
\* existing holding is deleted first
\* (UahDelete_AlwaysRecreate: the result of the delete not consulted)
UahDelete_AlwaysRecreate ==
    /\ run_pc = "update" /\ uah.pc = "target" /\ uah.i <= Len(portfolio.holdings)
    /\ LET target == portfolio.holdings[uah.i] IN
       /\ Holds(uah.current, target.stock_ticker)
       /\ Abs(uah.current[IndexOfTicker(uah.current, target.stock_ticker)].quantity
                - target.shares) > Tolerance
       /\ \E outcome \in Outcomes :
             /\ ledger_calls' = Append(ledger_calls,
                    [call |-> "delete_manual_holding", ticker |-> target.stock_ticker,
                     outcome |-> outcome])
             /\ ledger_holdings' = IF outcome = "ok"
                                  THEN WithoutTicker(ledger_holdings, target.stock_ticker)
                                  ELSE ledger_holdings
             /\ uah' = [uah EXCEPT !.pc = "recreate", !.total_operations = @ + 1]
    /\ UNCHANGED run_pc
    /\ UahFrame
UahDelete ==
    /\ run_pc = "update" /\ uah.pc = "target" /\ uah.i <= Len(portfolio.holdings)
    /\ LET target == portfolio.holdings[uah.i] IN
       /\ Holds(uah.current, target.stock_ticker)
       /\ Abs(uah.current[IndexOfTicker(uah.current, target.stock_ticker)].quantity
                - target.shares) > Tolerance
       /\ \E outcome \in Outcomes :
             /\ ledger_calls' = Append(ledger_calls,
                    [call |-> "delete_manual_holding", ticker |-> target.stock_ticker,
                     outcome |-> outcome])
             /\ IF outcome = "ok"
                THEN /\ ledger_holdings' =
                            WithoutTicker(ledger_holdings, target.stock_ticker)
                     /\ uah' = [uah EXCEPT !.pc = "recreate", !.total_operations = @ + 1]
                ELSE /\ UNCHANGED ledger_holdings
                     /\ uah' = [uah EXCEPT !.i = @ + 1, !.total_operations = @ + 1]
    /\ UNCHANGED run_pc
    /\ UahFrame

\* the create call and the reading of its response (monarch.py:275-298, 309-330)
CreateFor(target) ==
    \E outcome \in Outcomes :
       /\ ledger_calls' = Append(ledger_calls,
              [call |-> "create_manual_holding_by_ticker", ticker |-> target.stock_ticker,
               quantity |-> target.shares, outcome |-> outcome])
       /\ IF outcome = "ok"
          THEN /\ ledger_holdings' = Append(ledger_holdings,
                      [ticker |-> target.stock_ticker, quantity |-> target.shares])
               /\ uah' = [uah EXCEPT !.pc = "target", !.i = @ + 1,
                                     !.operations_succeeded = @ + 1,
                                     !.total_operations =
                                         IF uah.pc = "target" THEN @ + 1 ELSE @]
          ELSE /\ UNCHANGED ledger_holdings
               /\ uah' = [uah EXCEPT !.pc = "target", !.i = @ + 1,
                                     !.total_operations =
                                         IF uah.pc = "target" THEN @ + 1 ELSE @]

\* monarch.py:274-298: after a successful delete the holding is created anew
UahRecreate ==
    /\ run_pc = "update" /\ uah.pc = "recreate"
    /\ CreateFor(portfolio.holdings[uah.i])
    /\ UNCHANGED run_pc
    /\ UahFrame

\* monarch.py:307-332: a target not held is created
UahCreateNew ==
    /\ run_pc = "update" /\ uah.pc = "target" /\ uah.i <= Len(portfolio.holdings)
    /\ ~Holds(uah.current, portfolio.holdings[uah.i].stock_ticker)
    /\ CreateFor(portfolio.holdings[uah.i])
    /\ UNCHANGED run_pc
    /\ UahFrame

\* monarch.py:334-335: the loop over the targets has ended
UahTargetsDone ==
    /\ run_pc = "update" /\ uah.pc = "target" /\ uah.i > Len(portfolio.holdings)
    /\ uah' = [uah EXCEPT !.pc = "remove"]
    /\ UNCHANGED <<run_pc, ledgerVars>>
    /\ UahFrame

\* monarch.py:335-348: a current holding with positive quantity that is not a
\* target is deleted; any other is passed over
\* (UahRemove_PassesOver: no current holding is deleted)
UahRemove_PassesOver ==
    /\ run_pc = "update" /\ uah.pc = "remove" /\ uah.j <= Len(uah.current)
    /\ uah' = [uah EXCEPT !.j = @ + 1]
    /\ UNCHANGED <<run_pc, ledgerVars>>
    /\ UahFrame
UahRemove ==
    /\ run_pc = "update" /\ uah.pc = "remove" /\ uah.j <= Len(uah.current)
    /\ LET current_holding == uah.current[uah.j] IN
       IF /\ \A i \in 1..Len(portfolio.holdings) :
                portfolio.holdings[i].stock_ticker # current_holding.ticker
          /\ current_holding.quantity > 0
       THEN \E outcome \in Outcomes :
               /\ ledger_calls' = Append(ledger_calls,
                      [call |-> "delete_manual_holding", ticker |-> current_holding.ticker,
                       outcome |-> outcome])
               /\ IF outcome = "ok"
                  THEN /\ ledger_holdings' =
                              WithoutTicker(ledger_holdings, current_holding.ticker)
                       /\ uah' = [uah EXCEPT !.j = @ + 1, !.total_operations = @ + 1,
                                             !.operations_succeeded = @ + 1]
                  ELSE /\ UNCHANGED ledger_holdings
                       /\ uah' = [uah EXCEPT !.j = @ + 1, !.total_operations = @ + 1]
       ELSE /\ uah' = [uah EXCEPT !.j = @ + 1]
            /\ UNCHANGED ledgerVars
    /\ UNCHANGED run_pc
    /\ UahFrame

\* monarch.py:350-354 and sync.py:169-171: the function returns whether every
\* counted operation succeeded, and the sync ends
\* (UahReturn_Lenient: success when any operation succeeded)
UahReturn_Lenient ==
    /\ run_pc = "update" /\ uah.pc = "remove" /\ uah.j > Len(uah.current)
    /\ uah' = [pc |-> "returned",
               result |-> (uah.operations_succeeded > 0),
               current |-> uah.current,
               operations_succeeded |-> uah.operations_succeeded,
               total_operations |-> uah.total_operations]
    /\ run_pc' = "done"
    /\ UNCHANGED ledgerVars
    /\ UahFrame
UahReturn ==
    /\ run_pc = "update" /\ uah.pc = "remove" /\ uah.j > Len(uah.current)
    /\ uah' = [pc |-> "returned",
               result |-> (uah.operations_succeeded = uah.total_operations),
               current |-> uah.current,
               operations_succeeded |-> uah.operations_succeeded,
               total_operations |-> uah.total_operations]
    /\ run_pc' = "done"
    /\ UNCHANGED ledgerVars
    /\ UahFrame

SyncNext ==
    \/ GetFiles
    \/ LoadLogs
    \/ DiffLogs
    \/ LoadPortfolio
    \/ UahFetch
    \/ UahNoChange
    \/ UahDelete
    \/ UahRecreate
    \/ UahCreateNew
    \/ UahTargetsDone
    \/ UahRemove
    \/ UahReturn

SyncSpec == SyncInit /\ [][SyncNext]_vars

\* ------------------------------------- a series of snapshots, one run each
\* most snapshots of one account
MaxSnapshots == 3
RecordC == [RecordA EXCEPT !.amount = 75]
\* the records the scraper may add to a snapshot
SeriesRecords == {RecordA, RecordB, RecordC}
\* the snapshots TransactionLog.validate_transactions accepts
NoRepeats(records) ==
    \A i, j \in 1..Len(records) : i # j => records[i] # records[j]
\* the next snapshot of an append-only log: the last one and at most one
\* record more
SnapshotsAfter(content) ==
    { content \o more : more \in { m \in SeqsUpTo(SeriesRecords, 1) : NoRepeats(content \o m) } }

SeriesInit ==
    /\ config_type = "transactions"
    /\ dry_run = FALSE
    /\ \E content \in { c \in SeqsUpTo(SeriesRecords, 2) : NoRepeats(c) } :
          directory = <<[stamp |-> [kind |-> "name", at |-> 1], content |-> content]>>
    /\ files = <<>>
    /\ run_new_log = [type |-> "none"]
    /\ run_old_log = [type |-> "none"]
    /\ portfolio = [status |-> "none"]
    /\ run_pc = "start"
    /\ ledger_calls = <<>>
    /\ ledger_holdings = <<>>
    /\ uah = [pc |-> "idle"]
    /\ DiffIdle
    /\ LoadIdle
    /\ LoginIdle
    /\ RunnerIdle

\* the scraper writes the next snapshot, later than every other, and
\* sync_transactions_to_monarch is called again
NewSnapshot ==
    /\ run_pc \in {"done", "raised"}
    /\ config_type = "transactions"
    /\ Len(directory) < MaxSnapshots
    /\ \E content \in SnapshotsAfter(directory[Len(directory)].content) :
          directory' = Append(directory,
              [stamp |-> [kind |-> "name", at |-> Len(directory) + 1],
               content |-> content])
    /\ files' = <<>>
    /\ run_new_log' = [type |-> "none"]
    /\ run_old_log' = [type |-> "none"]
    /\ run_pc' = "start"
    /\ UNCHANGED <<config_type, dry_run, portfolio, ledgerVars, uah, diffVars, loadVars,
                   loginVars, runnerVars>>

SeriesNext ==
    \/ GetFiles
    \/ LoadLogs
    \/ DiffLogs
    \/ NewSnapshot

SeriesSpec == SeriesInit /\ [][SeriesNext]_vars

\* ---------------------------------------------------------- monarch.py login
\* most calls of login that share one session file
MaxLogins == 2
\* the session tokens the service issues
Tokens == {"tokenA", "tokenB", "tokenC"}

LoginFrame == UNCHANGED <<diffVars, loadVars, syncVars, runnerVars>>

LoginInit ==
    /\ session_file \in {[exists |-> FALSE]} \cup [exists : {TRUE}, token : Tokens]
    /\ mm_session = "none"
    /\ login_pc = "start"
    /\ login_calls = <<>>
    /\ logins = 0
    /\ DiffIdle
    /\ LoadIdle
    /\ SyncIdle
    /\ RunnerIdle

\* monarch.py:29-34: a new MonarchMoney; an existing session file is loaded
LoginEnter ==
    /\ login_pc \in {"start", "returned", "raised"}
    /\ logins < MaxLogins
    /\ logins' = logins + 1
    /\ IF session_file.exists
       THEN \E outcome \in {"ok", "raised"} :
               /\ login_calls' = <<[call |-> "load_session", outcome |-> outcome]>>
               /\ IF outcome = "ok"
                  THEN mm_session' = session_file.token /\ login_pc' = "verify_existing"
                  ELSE mm_session' = "none" /\ login_pc' = "raised"
       ELSE /\ login_calls' = <<>>
            /\ mm_session' = "none"
            /\ login_pc' = "fresh"
    /\ UNCHANGED session_file
    /\ LoginFrame

\* monarch.py:16-24, 35-40: the loaded session is verified and returned; one
\* that does not verify has its file deleted
\* (VerifyExisting_KeepsFile: delete_session left out)
VerifyExisting_KeepsFile ==
    /\ login_pc = "verify_existing"
    /\ \E verified \in BOOLEAN :
          /\ login_calls' = Append(login_calls,
                 [call |-> "verify_session", session |-> mm_session, outcome |-> verified])
          /\ login_pc' = IF verified THEN "returned" ELSE "fresh"
    /\ UNCHANGED <<session_file, mm_session, logins>>
    /\ LoginFrame
VerifyExisting ==
    /\ login_pc = "verify_existing"
    /\ \E verified \in BOOLEAN :
          IF verified
          THEN /\ login_calls' = Append(login_calls,
                      [call |-> "verify_session", session |-> mm_session,
                       outcome |-> TRUE])
               /\ login_pc' = "returned"
               /\ UNCHANGED session_file
          ELSE /\ login_calls' = login_calls \o
                      << [call |-> "verify_session", session |-> mm_session,
                          outcome |-> FALSE],
                         [call |-> "delete_session"] >>
               /\ session_file' = [exists |-> FALSE]
               /\ login_pc' = "fresh"
    /\ UNCHANGED <<mm_session, logins>>
    /\ LoginFrame

\* monarch.py:43-56: multi_factor_authenticate gives mm a new session, or raises
FreshLogin ==
    /\ login_pc = "fresh"
    /\ \/ \E token \in Tokens :
             /\ login_calls' = Append(login_calls,
                    [call |-> "multi_factor_authenticate", outcome |-> "ok"])
             /\ mm_session' = token
             /\ login_pc' = "verify_new"
       \/ /\ login_calls' = Append(login_calls,
                  [call |-> "multi_factor_authenticate", outcome |-> "raised"])
          /\ login_pc' = "raised"
          /\ UNCHANGED mm_session
    /\ UNCHANGED <<session_file, logins>>
    /\ LoginFrame

\* monarch.py:58-60: the new session is verified; login raises when it is not
VerifyNew ==
    /\ login_pc = "verify_new"
    /\ \E verified \in BOOLEAN :
          /\ login_calls' = Append(login_calls,
                 [call |-> "verify_session", session |-> mm_session, outcome |-> verified])
          /\ login_pc' = IF verified THEN "save" ELSE "raised"
    /\ UNCHANGED <<session_file, mm_session, logins>>
    /\ LoginFrame

\* monarch.py:62-65: the verified session is saved and returned
SaveSession ==
    /\ login_pc = "save"
    /\ \E outcome \in {"ok", "raised"} :
          /\ login_calls' = Append(login_calls,
                 [call |-> "save_session", session |-> mm_session, outcome |-> outcome])
          /\ IF outcome = "ok"
             THEN /\ session_file' = [exists |-> TRUE, token |-> mm_session]
                  /\ login_pc' = "returned"
             ELSE /\ UNCHANGED session_file
                  /\ login_pc' = "raised"
    /\ UNCHANGED <<mm_session, logins>>
    /\ LoginFrame

LoginNext ==
    \/ LoginEnter
    \/ VerifyExisting
    \/ FreshLogin
    \/ VerifyNew
    \/ SaveSession

LoginSpec == LoginInit /\ [][LoginNext]_vars

\* ------------------------------------ programmatic_runner.py execute_task
\* most subtasks of a task
MaxSubtasks == 3
\* class SubTask: the fields execute_task reads
SubTasks ==
    { [name |-> n, prompt |-> <<"prompt of", n>>, clear_session |-> c, save_output |-> o] :
          n \in {"login", "export"}, c \in BOOLEAN, o \in BOOLEAN }

RunnerFrame == UNCHANGED <<diffVars, loadVars, syncVars, loginVars>>

\* TaskConfig.__post_init__: a task has at least one subtask
RunnerInit ==
    /\ task \in SeqsUpTo(SubTasks, MaxSubtasks) \ {<<>>}
    /\ messages = <<>>
    /\ subtask_results = <<>>
    /\ overall_success = TRUE
    /\ subtask_i = 1
    /\ runner_pc = "loop"
    /\ loop_calls = <<>>
    /\ task_result = [status |-> "none"]
    /\ DiffIdle
    /\ LoadIdle
    /\ SyncIdle
    /\ LoginIdle

\* programmatic_runner.py:194-207: the messages a subtask starts from
StartOf(subtask, carried) ==
    (IF subtask.clear_session THEN <<>> ELSE carried)
        \o <<[role |-> "user", text |-> subtask.prompt]>>

\* what sampling_loop returns for the messages it was given: the same
\* conversation with the assistant's turn at its end
FinalMessages(subtask, subtask_messages) ==
    subtask_messages \o <<[role |-> "assistant", text |-> <<"reply to", subtask.name>>]>>

\* programmatic_runner.py:263-266, 269-287: the conversation carried to the
\* next subtask
\* (CarriedForward_IgnoresClear: the final messages carried after every
\*  subtask that succeeded)
CarriedForward_IgnoresClear(subtask, carried, final_messages, succeeded) ==
    IF succeeded THEN final_messages ELSE carried
CarriedForward(subtask, carried, final_messages, succeeded) ==
    IF succeeded /\ ~subtask.clear_session THEN final_messages ELSE carried

\* programmatic_runner.py:187, 287: the loop goes on to the next subtask
\* whether or not this one succeeded
\* (NextSubtask_StopsOnFailure: the loop left at the first failure)
NextSubtask_StopsOnFailure(i, succeeded) == IF succeeded THEN i + 1 ELSE Len(task) + 1
NextSubtask(i, succeeded) == i + 1

\* programmatic_runner.py:187-287: one pass of the loop. sampling_loop
\* returns or raises; with save_output the saving of the output may raise
\* after it returned
RunSubtask ==
    /\ runner_pc = "loop" /\ subtask_i <= Len(task)
    /\ LET subtask == task[subtask_i]
           subtask_messages == StartOf(subtask, messages)
           final_messages == FinalMessages(subtask, subtask_messages)
       IN  \E outcome \in {"ok", "raised"}
                           \cup (IF subtask.save_output THEN {"save raised"} ELSE {}) :
              /\ loop_calls' = Append(loop_calls,
                     [subtask |-> subtask.name, messages |-> subtask_messages,
                      outcome |-> IF outcome = "raised" THEN "raised" ELSE "ok"])
              /\ subtask_results' = Append(subtask_results,
                     IF outcome = "ok"
                     THEN [subtask_name |-> subtask.name, success |-> TRUE,
                           messages |-> final_messages]
                     ELSE [subtask_name |-> subtask.name, success |-> FALSE,
                           messages |-> messages])
              /\ messages' = CarriedForward(subtask, messages, final_messages,
                                            outcome = "ok")
              /\ overall_success' = (overall_success /\ outcome = "ok")
              /\ subtask_i' = NextSubtask(subtask_i, outcome = "ok")
    /\ UNCHANGED <<task, runner_pc, task_result>>
    /\ RunnerFrame

\* programmatic_runner.py:289-309: the TaskResult is built and returned
ReturnTask ==
    /\ runner_pc = "loop" /\ subtask_i > Len(task)
    /\ task_result' = [status |-> "returned", success |-> overall_success,
                       subtask_results |-> subtask_results]
    /\ runner_pc' = "returned"
    /\ UNCHANGED <<task, messages, subtask_results, overall_success, subtask_i, loop_calls>>
    /\ RunnerFrame

RunnerNext ==
    \/ RunSubtask
    \/ ReturnTask

RunnerSpec == RunnerInit /\ [][RunnerNext]_vars

\* ------------------------------------------------- vocabulary of the claims
\* the (date, amount) pair the claims call a transaction's key
ClaimKey(t) == <<t.date, t.amount>>
Range(s) == { s[i] : i \in 1..Len(s) }
KeysIn(s) == { ClaimKey(s[i]) : i \in 1..Len(s) }
\* the transactions of s with key k, in s's order
GroupOf(s, k) == SelectSeq(s, LAMBDA t : ClaimKey(t) = k)
\* how often t occurs in s
Occurrences(s, t) == Cardinality({ i \in 1..Len(s) : s[i] = t })
SameBag(r, s) == \A t \in Range(r) \cup Range(s) : Occurrences(r, t) = Occurrences(s, t)
\* the position of the first transaction of s with key k
FirstIndex(s, k) == CHOOSE i \in 1..Len(s) :
    /\ ClaimKey(s[i]) = k
    /\ \A j \in 1..(i - 1) : ClaimKey(s[j]) # k
\* s reordered by the permutation p of its positions
Permuted(s, p) == [i \in 1..Len(s) |-> s[p[i]]]
\* p keeps the relative order of the transactions that share a key
KeepsGroupOrder(s, p) ==
    \A i, j \in 1..Len(s) :
        (i < j /\ ClaimKey(s[p[i]]) = ClaimKey(s[p[j]])) => p[i] < p[j]
\* every key's transactions are adjacent in s
Contiguous(s) ==
    \A i, j, m \in 1..Len(s) :
        (i < m /\ m < j /\ ClaimKey(s[i]) = ClaimKey(s[j])) => ClaimKey(s[m]) = ClaimKey(s[i])
\* r lists its transactions key by key, keys in the order of their first
\* appearance in s
InFirstSeenKeyOrder(r, s) ==
    \A i, j \in 1..Len(r) :
        i < j => FirstIndex(s, ClaimKey(r[i])) <= FirstIndex(s, ClaimKey(r[j]))
Done == pc = "done"

\* ------------------------------------------------------------------ claims

\* C1: for every log L, get_transaction_log_diff(L, L) is the empty list.
C1_SelfDiffEmpty ==
    Done =>
        /\ old_log = new_log => new_transactions = <<>>
        /\ get_transaction_log_diff(new_log, new_log) = <<>>
C1_Witness ==
    /\ Done /\ old_log = new_log /\ Len(new_log) = 2
    /\ new_log[1] # new_log[2]
    /\ new_transactions = <<>>

\* C2 as stated: for every log L, get_transaction_log_diff(L, []) is L itself,
\* element for element in L's order, also when keys are interleaved.
C2_Original ==
    (Done /\ old_log = <<>>) => new_transactions = new_log
\* C2 amended: get_transaction_log_diff(L, []) holds every transaction of L
\* exactly as often as L, listed key by key in first-seen-key order with L's
\* order inside each key; it equals L exactly when the transactions of each
\* key are adjacent in L.
C2_AllNewGrouped ==
    (Done /\ old_log = <<>>) =>
        /\ SameBag(new_transactions, new_log)
        /\ \A k \in KeysIn(new_log) : GroupOf(new_transactions, k) = GroupOf(new_log, k)
        /\ InFirstSeenKeyOrder(new_transactions, new_log)
        /\ (new_transactions = new_log) <=> Contiguous(new_log)
C2_Witness ==
    /\ Done /\ old_log = <<>> /\ Len(new_log) = 3
    /\ ~Contiguous(new_log)
    /\ new_transactions = <<new_log[1], new_log[3], new_log[2]>>

\* C3: for every key with new_count > old_count the function emits exactly
\* the first (new_count - old_count) transactions of the new group, in their
\* order, and no other transaction of that group.
C3_HeadOfGroup ==
    Done =>
        \A k \in KeysIn(new_log) :
            LET new_count == Len(GroupOf(new_log, k))
                old_count == Len(GroupOf(old_log, k))
            IN  new_count > old_count =>
                    GroupOf(new_transactions, k)
                        = SubSeq(GroupOf(new_log, k), 1, new_count - old_count)
C3_Witness ==
    /\ Done
    /\ \E k \in KeysIn(new_log) :
          /\ Len(GroupOf(new_log, k)) = 3
          /\ Len(GroupOf(old_log, k)) = 1
          /\ GroupOf(new_log, k)[1] # GroupOf(new_log, k)[3]
          /\ GroupOf(new_transactions, k) = SubSeq(GroupOf(new_log, k), 1, 2)

\* C4: for every key with new_count <= old_count the function emits no
\* transaction of that group, even when the two groups differ in
\* user_account or counterparty_account.
C4_NoSurplusNothingEmitted ==
    Done =>
        \A k \in KeysIn(new_log) :
            Len(GroupOf(new_log, k)) <= Len(GroupOf(old_log, k)) =>
                GroupOf(new_transactions, k) = <<>>
C4_Witness ==
    /\ Done
    /\ \E k \in KeysIn(new_log) :
          /\ Len(GroupOf(new_log, k)) = 2
          /\ Len(GroupOf(old_log, k)) = 2
          /\ Range(GroupOf(new_log, k)) \cap Range(GroupOf(old_log, k)) = {}
          /\ GroupOf(new_transactions, k) = <<>>

\* Scenario A: new_log = [a, b, c], a and b of key (2024-01-01, 50), c of key
\* (2024-01-02, 10); old_log holds one transaction of key (2024-01-01, 50).
ScenarioA ==
    /\ Len(new_log) = 3 /\ Len(old_log) = 1
    /\ ClaimKey(new_log[1]) = <<"2024-01-01", 50>>
    /\ ClaimKey(new_log[2]) = <<"2024-01-01", 50>>
    /\ ClaimKey(new_log[3]) = <<"2024-01-02", 10>>
    /\ ClaimKey(old_log[1]) = <<"2024-01-01", 50>>

\* C5 as stated: in Scenario A the function returns [b, c], the second of the
\* two same-key transactions followed by c.
C5_Original ==
    (Done /\ ScenarioA) => new_transactions = <<new_log[2], new_log[3]>>
\* C5 amended: in Scenario A the function returns exactly two transactions
\* [a, c]: the first of the two same-key transactions, followed by c.
C5_ScenarioAFirst ==
    (Done /\ ScenarioA) => new_transactions = <<new_log[1], new_log[3]>>
C5_Witness ==
    /\ Done /\ ScenarioA
    /\ new_log[1] # new_log[2]
    /\ old_log[1] = new_log[1]
    /\ new_transactions = <<new_log[1], new_log[3]>>

\* C6: the output lists the qualifying groups in the order in which their key
\* first appears in new_log, and inside a group the emitted transactions keep
\* their relative order from new_log.
C6_OutputOrder ==
    Done =>
        /\ InFirstSeenKeyOrder(new_transactions, new_log)
        /\ \A k \in KeysIn(new_transactions) :
              \E f \in [1..Len(GroupOf(new_transactions, k))
                            -> 1..Len(GroupOf(new_log, k))] :
                  /\ \A i, j \in DOMAIN f : i < j => f[i] < f[j]
                  /\ \A i \in DOMAIN f :
                        GroupOf(new_transactions, k)[i] = GroupOf(new_log, k)[f[i]]
C6_Witness ==
    /\ Done /\ Len(new_log) = 3 /\ Len(new_transactions) = 3
    /\ ~Contiguous(new_log)
    /\ new_log[1] # new_log[3]
    /\ new_transactions # new_log

\* C7: every returned transaction is an element of new_log, and none is
\* returned more often than it occurs in new_log.
C7_OutputFromNewLog ==
    Done =>
        \A t \in Range(new_transactions) :
            /\ t \in Range(new_log)
            /\ Occurrences(new_transactions, t) <= Occurrences(new_log, t)
C7_Witness ==
    /\ Done /\ Len(new_transactions) = 2 /\ Len(old_log) = 1
    /\ Range(old_log) \cap Range(new_log) = {}
    /\ KeysIn(old_log) \subseteq KeysIn(new_log)

\* C8 as stated: every returned transaction is in new_log and equals no
\* transaction of old_log.
C8_Original ==
    Done =>
        \A t \in Range(new_transactions) :
            t \in Range(new_log) /\ t \notin Range(old_log)
\* C8 amended: every returned transaction is in new_log, and for each key the
\* function returns as many transactions as new_log holds beyond old_log (none
\* when it holds no more); a returned transaction equals a transaction of
\* old_log only when new_log holds more transactions of its key than old_log.
C8_InNewCountedAgainstOld ==
    Done =>
        /\ \A t \in Range(new_transactions) :
              /\ t \in Range(new_log)
              /\ t \in Range(old_log) =>
                    Len(GroupOf(new_log, ClaimKey(t))) > Len(GroupOf(old_log, ClaimKey(t)))
        /\ \A k \in KeysIn(new_log) :
              LET new_count == Len(GroupOf(new_log, k))
                  old_count == Len(GroupOf(old_log, k))
              IN  Len(GroupOf(new_transactions, k))
                      = IF new_count > old_count THEN new_count - old_count ELSE 0
C8_Witness ==
    /\ Done /\ Len(new_log) = 2 /\ Len(old_log) = 1
    /\ new_log[1] # new_log[2]
    /\ old_log[1] = new_log[1]
    /\ new_transactions = old_log

\* C9: for every new_log and every two old logs that are permutations of each
\* other, the function returns the identical list.
C9_OldOrderIrrelevant ==
    Done =>
        \A p \in Permutations(1..Len(old_log)) :
            get_transaction_log_diff(new_log, Permuted(old_log, p)) = new_transactions
C9_Witness ==
    /\ Done /\ Len(old_log) = 2 /\ Len(new_transactions) = 1
    /\ ClaimKey(old_log[1]) # ClaimKey(old_log[2])
    /\ KeysIn(old_log) \subseteq KeysIn(new_log)
    /\ new_transactions
         = get_transaction_log_diff(new_log, <<old_log[2], old_log[1]>>)

\* C10 as stated: for every permutation new_log' of new_log the two results
\* are equal as multisets.
C10_Original ==
    Done =>
        \A p \in Permutations(1..Len(new_log)) :
            SameBag(get_transaction_log_diff(Permuted(new_log, p), old_log),
                    new_transactions)
\* C10 amended: for every permutation new_log' of new_log the two results
\* hold equally many transactions of every key; they are equal as multisets
\* when the permutation keeps the relative order of the transactions that
\* share a key.
C10_NewOrderWithinGroups ==
    Done =>
        \A p \in Permutations(1..Len(new_log)) :
            LET other == get_transaction_log_diff(Permuted(new_log, p), old_log)
            IN  /\ \A k \in KeysIn(new_log) :
                      Len(GroupOf(other, k)) = Len(GroupOf(new_transactions, k))
                /\ KeepsGroupOrder(new_log, p) => SameBag(other, new_transactions)
C10_Witness ==
    /\ Done /\ Len(new_log) = 3 /\ Len(old_log) = 1
    /\ ~Contiguous(new_log)
    /\ Len(new_transactions) = 2
    /\ new_transactions # get_transaction_log_diff(
                              <<new_log[2], new_log[1], new_log[3]>>, old_log)
    /\ SameBag(new_transactions,
               get_transaction_log_diff(<<new_log[2], new_log[1], new_log[3]>>, old_log))
\* --------------------------------------------- claims on reordered inputs
\* the same machine; the claim that compares a call with the calls on every
\* reordering of new_log is checked against it
SpecReorder == Init /\ [][Next]_vars

\* ---------------------------------------------- claims on replaced accounts
\* the same machine; the claims that compare a call with calls on changed
\* inputs are checked against it
SpecReplace == Init /\ [][Next]_vars

\* log with the position of each transaction recorded beside its fields
Tagged(log) ==
    [i \in 1..Len(log) |->
        [date |-> log[i].date, user_account |-> log[i].user_account,
         counterparty_account |-> log[i].counterparty_account,
         amount |-> log[i].amount, pos |-> i]]
\* the positions of new_log_ from which the call takes its result
PositionsTaken(new_log_, old_log_) ==
    LET r == get_transaction_log_diff(Tagged(new_log_), old_log_)
    IN  [i \in 1..Len(r) |-> r[i].pos]
\* log with the accounts of its i-th transaction replaced by the pair p
WithParties(log, i, p) ==
    [log EXCEPT ![i] = [date |-> log[i].date, user_account |-> p[1],
                        counterparty_account |-> p[2], amount |-> log[i].amount]]

\* C11: the function groups only by (date, amount): replacing the
\* user_account or counterparty_account of any transaction of old_log or of
\* new_log changes neither the number of transactions emitted for any key nor
\* the positions of new_log from which they are taken.
C11_AccountsIgnored ==
    Done =>
        LET taken == PositionsTaken(new_log, old_log) IN
        /\ new_transactions = [i \in 1..Len(taken) |-> new_log[taken[i]]]
        /\ \A p \in Parties :
              /\ \A i \in 1..Len(new_log) :
                    PositionsTaken(WithParties(new_log, i, p), old_log) = taken
              /\ \A i \in 1..Len(old_log) :
                    PositionsTaken(new_log, WithParties(old_log, i, p)) = taken
C11_Witness ==
    /\ Done /\ Len(new_log) = 3 /\ Len(old_log) = 2
    /\ ClaimKey(new_log[1]) = ClaimKey(new_log[2])
    /\ ClaimKey(new_log[1]) = ClaimKey(old_log[1])
    /\ ClaimKey(new_log[3]) = ClaimKey(old_log[2])
    /\ new_log[1] = old_log[1]
    /\ new_log[2] # new_log[1]
    /\ PositionsTaken(new_log, old_log) = <<1>>
    /\ PositionsTaken(new_log, WithParties(old_log, 1, <<"HSA", "Payroll">>)) = <<1>>
    /\ old_log # WithParties(old_log, 1, <<"HSA", "Payroll">>)

\* C12: for every old_log, get_transaction_log_diff([], old_log) is the empty
\* list.
C12_EmptyNewLog ==
    (Done /\ new_log = <<>>) => new_transactions = <<>>
C12_Witness ==
    /\ Done /\ new_log = <<>> /\ Len(old_log) = 2
    /\ new_transactions = <<>>

HasEqualPair(s) ==
    \E i, j \in 1..Len(s) :
        /\ i < j
        /\ s[i].date = s[j].date
        /\ s[i].user_account = s[j].user_account
        /\ s[i].counterparty_account = s[j].counterparty_account
        /\ s[i].amount = s[j].amount
\* v is a calendar date written as four, two and two digits with hyphens
IsYYYYMMDD(v) ==
    /\ v.sep = "-"
    /\ Len(v.year) = 4 /\ Len(v.month) = 2 /\ Len(v.day) = 2
    /\ NumberOf(v.year) >= 1
    /\ NumberOf(v.month) \in 1..12
    /\ NumberOf(v.day) \in 1..DaysInMonth(NumberOf(v.year), NumberOf(v.month))

\* C15: every constructed TransactionLog holds no two transactions equal on
\* (date, user_account, counterparty_account, amount); a sequence holding two
\* such transactions is rejected with a validation error and gives no log.
C15_NoDuplicatesInLog ==
    /\ loaded.status = "ok" => ~HasEqualPair(loaded.transactions)
    /\ (loaded.status # "pending" /\ HasEqualPair(transactions_data)) =>
            (loaded.status = "ValueError" /\ DOMAIN loaded = {"status"})
C15_Witness ==
    /\ loaded.status = "ValueError"
    /\ Len(transactions_data) = 2
    /\ transactions_data[1] = transactions_data[2]
    /\ IsYYYYMMDD(transactions_data[1].date)

\* C16: from_json_file rejects the whole load whenever a record's date is not
\* a valid calendar date written in YYYY-MM-DD format; a log is returned only
\* when every record's date is in that format.
C16_OnlyYYYYMMDDLoaded ==
    loaded.status = "ok" =>
        \A i \in 1..Len(transactions_data) : IsYYYYMMDD(transactions_data[i].date)
\* --------------------------------------------------------- claims on sync
RunEnded == run_pc \in {"done", "raised"}
\* a run of sync_transactions_to_monarch, not dry, whose snapshots loaded
TransactionsRunLoaded ==
    /\ config_type = "transactions" /\ ~dry_run
    /\ run_new_log.type = "TransactionLog"
\* the transactions of the previous snapshot, none with a single file
PreviousTransactions ==
    IF run_old_log.type = "TransactionLog" THEN run_old_log.transactions ELSE <<>>
\* get_transaction_log_diff(latest snapshot, previous snapshot)
SnapshotDiff == get_transaction_log_diff(run_new_log.transactions, PreviousTransactions)
\* the transactions handed to the ledger's create_transaction, in call order
Submitted ==
    LET calls == SelectSeq(ledger_calls, LAMBDA c : c.call = "create_transaction")
    IN  [i \in 1..Len(calls) |-> calls[i].transaction]
StampTime(f) == f.stamp.at

\* C17: in a run that is not dry the transactions of the diff are submitted
\* one at a time, and a failed submission never prevents the submission of
\* the remaining ones: when the run has ended, every transaction of the diff
\* has been submitted.
C17_WholeBatchSubmitted ==
    (RunEnded /\ TransactionsRunLoaded) =>
        \A i \in 1..Len(SnapshotDiff) :
            \E k \in 1..Len(Submitted) : Submitted[k] = SnapshotDiff[i]

\* C18: one run that is not dry submits exactly the transactions of
\* get_transaction_log_diff(latest snapshot, previous snapshot), each once and
\* in the diff's order; with a single file every transaction of the latest
\* snapshot is submitted.
C18_SubmitsExactlyTheDiff ==
    (RunEnded /\ TransactionsRunLoaded) => Submitted = SnapshotDiff

\* C19: get_latest_files(pattern, n) returns at most n matching files, latest
\* first, so that new_log is loaded from a snapshot dated at or after the one
\* old_log is loaded from.
C19_LatestFilesFirst ==
    run_pc \in {"load", "diff", "update", "done"} =>
        /\ Len(files) <= (IF config_type = "transactions" THEN 2 ELSE 1)
        /\ Len(files) <= Len(directory)
        /\ \A i, j \in 1..Len(files) : i < j => StampTime(files[i]) >= StampTime(files[j])
        /\ \A k \in 1..Len(directory) :
              \/ \A i \in 1..Len(files) : StampTime(files[i]) >= StampTime(directory[k])
              \/ \E i \in 1..Len(files) : files[i] = directory[k]
        /\ \A f \in Range(files) : Occurrences(files, f) <= Occurrences(directory, f)
        /\ run_new_log.type = "TransactionLog" =>
              /\ run_new_log.transactions = files[1].content
              /\ run_old_log.type = "TransactionLog" =>
                    /\ run_old_log.transactions = files[2].content
                    /\ StampTime(files[1]) >= StampTime(files[2])
C19_Witness ==
    /\ run_pc = "diff" /\ Len(directory) = 3
    /\ files = <<directory[3], directory[1]>>
    /\ directory[3].stamp.kind = "name" /\ directory[1].stamp.kind = "name"
    /\ StampTime(directory[3]) > StampTime(directory[1])
    /\ run_new_log.transactions = directory[3].content
    /\ run_old_log.transactions = directory[1].content
    /\ directory[3].content # directory[1].content

\* C20: with dry_run set, neither sync issues a mutating call to the ledger:
\* no step of the run adds a call or changes the account's holdings.
C20_DryRunLeavesLedger ==
    [][ dry_run => /\ ledger_calls' = ledger_calls
                   /\ ledger_calls = <<>>
                   /\ ledger_holdings' = ledger_holdings ]_vars
C20_Witness ==
    /\ dry_run /\ run_pc = "done" /\ config_type = "portfolio"
    /\ ledger_calls = <<>>
    /\ Len(portfolio.holdings) = 2
    /\ Len(ledger_holdings) = 3
    /\ ledger_holdings[1].ticker = "MSFT"

\* ------------------------------------------- update_account_holdings claims
UahReturned == uah.pc = "returned"
FetchSucceeded ==
    /\ ledger_calls # <<>>
    /\ ledger_calls[1] = [call |-> "get_account_holdings", outcome |-> "ok"]
EveryCallSucceeded == \A k \in 1..Len(ledger_calls) : ledger_calls[k].outcome = "ok"
TargetTickers == { portfolio.holdings[i].stock_ticker : i \in 1..Len(portfolio.holdings) }
TargetShares(ticker) ==
    portfolio.holdings[CHOOSE i \in 1..Len(portfolio.holdings) :
                           portfolio.holdings[i].stock_ticker = ticker].shares
\* the current holdings with positive quantity that no target names
Surplus(before) ==
    { k \in 1..Len(before) : before[k].quantity > 0 /\ before[k].ticker \notin TargetTickers }
CountedOperations(before) == Len(portfolio.holdings) + Cardinality(Surplus(before))

\* C21: update_account_holdings never raises; it returns True exactly when
\* the fetch and every call of the counted operations (one per target, one
\* per current holding with positive quantity absent from the target)
\* succeeded, and False when any of them failed or raised.
C21_ReturnsWhetherAllSucceeded ==
    /\ run_pc = "raised" => uah.pc = "idle"
    /\ UahReturned =>
          /\ uah.result \in BOOLEAN
          /\ uah.result <=> EveryCallSucceeded
          /\ FetchSucceeded => uah.total_operations = CountedOperations(uah.current)
          /\ ~FetchSucceeded => Len(ledger_calls) = 1

\* a call that returned False after three operations, one of which failed
C21_Witness ==
    /\ UahReturned /\ FetchSucceeded /\ ~uah.result
    /\ uah.total_operations = 3 /\ uah.operations_succeeded = 2

HeldBefore(ticker) == \E k \in 1..Len(uah.current) : uah.current[k].ticker = ticker
QuantityBefore(ticker) ==
    uah.current[CHOOSE k \in 1..Len(uah.current) : uah.current[k].ticker = ticker].quantity
Distance(a, b) == IF a < b THEN b - a ELSE a - b
IsCall(k, name, ticker) ==
    /\ ledger_calls[k].call = name
    /\ ledger_calls[k].ticker = ticker
\* the calls after the fetch, which is the first
LoopCalls == 2..Len(ledger_calls)

\* C22: for a target ticker already held, a create is issued only directly
\* after a delete of that ticker that returned success; after a delete that
\* failed or raised no create of the ticker is issued; and for a quantity
\* within 0.001 of the target neither call is issued.
C22_CreateOnlyAfterDelete ==
    (FetchSucceeded /\ uah.pc # "fetch") =>
        \A t \in { x \in TargetTickers : HeldBefore(x) } :
            /\ \A k \in LoopCalls :
                   IsCall(k, "create_manual_holding_by_ticker", t) =>
                       /\ k - 1 \in LoopCalls
                       /\ IsCall(k - 1, "delete_manual_holding", t)
                       /\ ledger_calls[k - 1].outcome = "ok"
            /\ \A k \in LoopCalls :
                   (IsCall(k, "delete_manual_holding", t) /\ ledger_calls[k].outcome # "ok") =>
                       \A m \in LoopCalls : ~IsCall(m, "create_manual_holding_by_ticker", t)
            /\ Distance(QuantityBefore(t), TargetShares(t)) <= 1 =>
                   \A k \in LoopCalls : ledger_calls[k].ticker # t

\* a call that has recreated one held ticker and left another, within the
\* tolerance, alone
C22_Witness ==
    /\ UahReturned /\ FetchSucceeded
    /\ \E t \in TargetTickers : \E k \in LoopCalls :
           /\ IsCall(k, "create_manual_holding_by_ticker", t) /\ HeldBefore(t)
    /\ \E t \in TargetTickers :
           HeldBefore(t) /\ Distance(QuantityBefore(t), TargetShares(t)) <= 1

\* C23: after update_account_holdings has returned, every ticker that the
\* account held before the call and that the target names is still held,
\* with its old or its target quantity.
C23_NoSharedHoldingLost ==
    (UahReturned /\ FetchSucceeded) =>
        \A t \in { x \in TargetTickers : HeldBefore(x) } :
            \E k \in 1..Len(ledger_holdings) :
                /\ ledger_holdings[k].ticker = t
                /\ ledger_holdings[k].quantity \in {QuantityBefore(t), TargetShares(t)}

PositiveTickers ==
    { ledger_holdings[k].ticker :
          k \in { n \in 1..Len(ledger_holdings) : ledger_holdings[n].quantity > 0 } }
HoldingsOf(ticker) == { k \in 1..Len(ledger_holdings) : ledger_holdings[k].ticker = ticker }

\* C24 as stated: when update_account_holdings returns True, the holdings
\* with positive quantity are exactly the target's tickers, each within
\* 0.001 of its target share count.
C24_Original ==
    (UahReturned /\ uah.result) =>
        /\ PositiveTickers = TargetTickers
        /\ \A t \in TargetTickers : \A k \in HoldingsOf(t) :
               Distance(ledger_holdings[k].quantity, TargetShares(t)) <= 1

\* C24: when update_account_holdings returns True, every target ticker is
\* held once, with a quantity within 0.001 of its target share count (zero
\* included, for a target of at most 0.001 that was held with none), and
\* every holding with positive quantity is one of the target's tickers.
C24_TrueMeansTargetsReached ==
    (UahReturned /\ uah.result) =>
        /\ PositiveTickers \subseteq TargetTickers
        /\ \A t \in TargetTickers :
               /\ Cardinality(HoldingsOf(t)) = 1
               /\ \A k \in HoldingsOf(t) :
                      Distance(ledger_holdings[k].quantity, TargetShares(t)) <= 1

\* a call that returned True after a recreate and a removal, with a target
\* left at the zero quantity it was held with
C24_Witness ==
    /\ UahReturned /\ uah.result
    /\ Len(ledger_calls) = 4
    /\ PositiveTickers # TargetTickers

\* ------------------------------------------------------------- login claims
IsVerify(k, outcome) ==
    /\ login_calls[k].call = "verify_session"
    /\ login_calls[k].outcome = outcome
CallsNamed(name) == { k \in 1..Len(login_calls) : login_calls[k].call = name }

\* C25: login returns a session only after verify_session succeeded on it;
\* a session file that failed verification is deleted before the fresh
\* login; the new session is saved only directly after it verified; and a
\* fresh login that fails verification raises with nothing saved.
C25_OnlyVerifiedSessions ==
    /\ login_pc = "returned" =>
          /\ login_calls # <<>>
          /\ \E k \in 1..Len(login_calls) :
                 /\ IsVerify(k, TRUE) /\ login_calls[k].session = mm_session
                 /\ \A a \in CallsNamed("multi_factor_authenticate") : a < k
    /\ \A a \in CallsNamed("multi_factor_authenticate") :
          /\ \A j \in 1..(a - 1) :
                 IsVerify(j, FALSE) => \E d \in CallsNamed("delete_session") : j < d /\ d < a
          /\ CallsNamed("load_session") # {} => CallsNamed("delete_session") # {}
    /\ login_pc \in {"fresh", "verify_new", "save"} => ~session_file.exists
    /\ \A v \in CallsNamed("save_session") :
          /\ v > 1
          /\ IsVerify(v - 1, TRUE)
          /\ login_calls[v - 1].session = login_calls[v].session
    /\ (login_pc = "raised" /\ CallsNamed("multi_factor_authenticate") # {}
           /\ IsVerify(Len(login_calls), FALSE)) =>
          /\ CallsNamed("save_session") = {}
          /\ ~session_file.exists
    /\ (session_file.exists /\ login_pc \in {"returned", "raised"}
           /\ CallsNamed("save_session") # {}) =>
          \E v \in CallsNamed("save_session") :
              /\ login_calls[v].outcome = "ok"
              /\ session_file.token = login_calls[v].session

\* a second login whose session file did not verify and that returned a
\* fresh session
C25_Witness ==
    /\ login_pc = "returned" /\ logins = 2
    /\ \E j \in 1..Len(login_calls) : IsVerify(j, FALSE)
    /\ CallsNamed("save_session") # {}

\* ------------------------------------------------------ execute_task claims
TaskReturned == runner_pc = "returned"
ClaimPrompt(subtask) == [role |-> "user", text |-> subtask.prompt]

\* C26: execute_task runs every subtask in order, whatever the earlier ones
\* did; the TaskResult holds one SubTaskResult per subtask, in subtask
\* order, and its success flag is True exactly when every subtask succeeded.
C26_EverySubtaskRun ==
    TaskReturned =>
        /\ Len(loop_calls) = Len(task)
        /\ Len(task_result.subtask_results) = Len(task)
        /\ \A k \in 1..Len(task) :
               /\ loop_calls[k].subtask = task[k].name
               /\ loop_calls[k].messages[Len(loop_calls[k].messages)] = ClaimPrompt(task[k])
               /\ task_result.subtask_results[k].subtask_name = task[k].name
               /\ task_result.subtask_results[k].success => loop_calls[k].outcome = "ok"
        /\ task_result.success <=>
               \A k \in 1..Len(task) : task_result.subtask_results[k].success

\* a task of three subtasks of which the first failed and the second succeeded
C26_Witness ==
    /\ TaskReturned /\ Len(task) = 3
    /\ ~task_result.subtask_results[1].success
    /\ task_result.subtask_results[2].success
    /\ ~task_result.success

\* C27: a subtask with clear_session starts from its prompt alone and leaves
\* the carried-forward conversation as it was; one without starts from the
\* carried-forward conversation followed by its prompt, replaces that
\* conversation by its final messages when it succeeds and leaves it as it
\* was when it fails.
C27_SessionCarriedForward ==
    [][ (runner_pc = "loop" /\ loop_calls' # loop_calls) =>
          LET subtask == task[subtask_i]
              call == loop_calls'[Len(loop_calls')]
              result == subtask_results'[Len(subtask_results')]
          IN  /\ Len(loop_calls') = Len(loop_calls) + 1
              /\ Len(subtask_results') = Len(subtask_results) + 1
              /\ subtask.clear_session =>
                     /\ call.messages = <<ClaimPrompt(subtask)>>
                     /\ messages' = messages
              /\ ~subtask.clear_session =>
                     /\ call.messages = messages \o <<ClaimPrompt(subtask)>>
                     /\ result.success => messages' = result.messages
                     /\ ~result.success => messages' = messages
              /\ result.success =>
                     /\ Len(result.messages) > Len(call.messages)
                     /\ SubSeq(result.messages, 1, Len(call.messages)) = call.messages
    ]_vars

\* a conversation was carried forward, a subtask with clear_session then
\* succeeded and one without it failed
C27_Witness ==
    /\ Len(loop_calls) = 3
    /\ messages # <<>>
    /\ task[2].clear_session /\ subtask_results[2].success
    /\ ~task[3].clear_session /\ ~subtask_results[3].success

\* ------------------------------------------------------------ series claims
LatestSnapshot == directory[Len(directory)].content
\* the transactions the ledger accepted
SubmittedOk ==
    LET calls == SelectSeq(ledger_calls, LAMBDA c :
                     c.call = "create_transaction" /\ c.outcome = "ok")
    IN  [i \in 1..Len(calls) |-> calls[i].transaction]
SeriesRunEnded == config_type = "transactions" /\ ~dry_run /\ RunEnded

\* C28: over snapshots S0..Sn whose count per (date, amount) key never
\* decreases, with one run after each snapshot and every submission
\* succeeding, the runs submit for every key as many transactions in total
\* as Sn holds for it.
C28_SeriesSubmitsFinalCounts ==
    SeriesRunEnded =>
        \A k \in KeysIn(LatestSnapshot) \cup KeysIn(Submitted) :
            Len(GroupOf(Submitted, k)) = Len(GroupOf(LatestSnapshot, k))

\* C29: with append-only snapshots and a run after every snapshot, every
\* transaction of every snapshot has been submitted successfully once the
\* run after the last snapshot has ended.
C29_NothingLost ==
    (SeriesRunEnded /\ Len(directory) = MaxSnapshots) =>
        \A d \in 1..Len(directory) : \A i \in 1..Len(directory[d].content) :
            \E k \in 1..Len(SubmittedOk) : SubmittedOk[k] = directory[d].content[i]

====
